---- MODULE Spec2Model ----
(***************************************************************************)
(* Order-management backend (src/backend/index.js): the Dish catalog with  *)
(* its seeding routine, and the Order collection with its create, read,    *)
(* update and delete handlers.  Each HTTP handler is one action; the       *)
(* seeding routine is stepped at the granularity of its awaits (one lookup *)
(* or one insert per step), since several server instances may run it      *)
(* against the same database.                                              *)
(***************************************************************************)
EXTENDS Integers, Sequences, FiniteSets

VARIABLES
    dishes,     \* the Dish collection, in insertion (natural) order
    orders,     \* the Order collection, in insertion (natural) order
    seed,       \* per server instance: position of its initializeMenu run
    nextDishId, \* next fresh ObjectId of the Dish collection
    nextOrderId,\* next fresh ObjectId of the Order collection
    now,        \* the wall clock (Date.now)
    deleted,    \* identities whose delete was confirmed (history)
    pristine,   \* per order created and not since updated or deleted: the
                \* create request it came from (history)
    response    \* the last HTTP response sent

vars == <<dishes, orders, seed, nextDishId, nextOrderId, now, deleted, pristine,
          response>>

(***************************************************************************)
(* Bounds of the model.                                                    *)
(***************************************************************************)
MaxOrders == 2      \* orders ever created
MaxTime == 1        \* clock ticks
DayLength == 1      \* clock ticks per calendar day

(***************************************************************************)
(* Identities.  ObjectIds are positive integers; the other values a        *)
(* request can carry in the place of an identity are the ones below.       *)
(***************************************************************************)
NullId == 0         \* null / no reference
MalformedId == -1   \* a string that is no ObjectId
UndefinedId == -2   \* field absent from the request body
GhostId == 99       \* a well-formed ObjectId that identifies no document

(***************************************************************************)
(* The catalog.                                                            *)
(***************************************************************************)
defaultDishes ==
    << [type |-> "main",    name |-> "Rice",       price |-> 100],
       [type |-> "main",    name |-> "Rotty",      price |-> 20],
       [type |-> "main",    name |-> "Noodles",    price |-> 150],
       [type |-> "side",    name |-> "Wadai",      price |-> 45],
       [type |-> "side",    name |-> "Dhal curry", price |-> 75],
       [type |-> "side",    name |-> "Fish curry", price |-> 120],
       [type |-> "dessert", name |-> "Watalappam", price |-> 40],
       [type |-> "dessert", name |-> "Jelly",      price |-> 20],
       [type |-> "dessert", name |-> "Pudding",    price |-> 250] >>

\* A dish document: the schema's fields plus the _id the store assigns.
NewDish(id, d) ==
    [_id |-> id, type |-> d.type, name |-> d.name, price |-> d.price]

\* The absence of a document (findOne / findById returning null).
NoDish == [_id |-> NullId, type |-> "", name |-> "", price |-> 0]

RECURSIVE FirstByName(_, _, _)
FirstByName(ds, name, k) ==
    IF k > Len(ds) THEN NoDish
    ELSE IF ds[k].name = name THEN ds[k]
    ELSE FirstByName(ds, name, k + 1)

RECURSIVE FirstByType(_, _, _)
FirstByType(ds, name, k) ==
    IF k > Len(ds) THEN NoDish
    ELSE IF ds[k].type = name THEN ds[k]
    ELSE FirstByType(ds, name, k + 1)

\* Mutant of FindOneDish: the query matches the name against the type field.
FindOneDishByType(ds, name) == FirstByType(ds, name, 1)

\* Dish.findOne({ name }): the first document, in natural order, of that name.
FindOneDish(ds, name) == FirstByName(ds, name, 1)

\* Dish.findById(id), as populate() and the reports use it.
FindDishById(ds, id) ==
    IF \E k \in 1..Len(ds) : ds[k]._id = id
    THEN ds[CHOOSE k \in 1..Len(ds) : ds[k]._id = id]
    ELSE NoDish

DishIds(ds) == {ds[k]._id : k \in 1..Len(ds)}

(***************************************************************************)
(* initializeMenu: for each entry of defaultDishes, look the name up and   *)
(* insert the entry when the lookup found nothing.  The whole loop sits in *)
(* one try block: a rejected lookup or insert ends the run.                *)
(***************************************************************************)
\* Two server instances started against the same database.
Instances == {1, 2}

SeedIdle(p) == [pc |-> "idle", i |-> 1, seq |-> FALSE]

\* mongoose.connect(...).then(() => initializeMenu()): the run begins.  seq
\* records whether another run had already ended normally by then.
SeedStart(p) ==
    /\ seed[p].pc = "idle"
    /\ seed' = [seed EXCEPT ![p] =
                  [pc |-> "find", i |-> 1,
                   seq |-> \E q \in DOMAIN seed : seed[q].pc = "done"]]
    /\ UNCHANGED <<dishes, orders, nextDishId, nextOrderId, now, deleted, pristine,
                 response>>

\* Where the loop goes after entry i is dealt with.
SeedAdvance(s) ==
    IF s.i = Len(defaultDishes)
    THEN [s EXCEPT !.pc = "done"]
    ELSE [s EXCEPT !.pc = "find", !.i = s.i + 1]

\* The catch block: the run ends at entry i.
SeedAbort(s) == [s EXCEPT !.pc = "failed"]

\* await Dish.findOne({ name: dish.name }); if (!dishExists) ...
SeedFind(p) ==
    /\ seed[p].pc = "find"
    /\ \E ok \in BOOLEAN :
         seed' = [seed EXCEPT ![p] =
                    IF ~ok THEN SeedAbort(seed[p])
                    ELSE IF FindOneDish(dishes, defaultDishes[seed[p].i].name) = NoDish
                         THEN [seed[p] EXCEPT !.pc = "save"]
                         ELSE SeedAdvance(seed[p])]
    /\ UNCHANGED <<dishes, orders, nextDishId, nextOrderId, now, deleted, pristine,
                 response>>

\* const newDish = new Dish(dish); await newDish.save();
SeedSave(p) ==
    /\ seed[p].pc = "save"
    /\ \E ok \in BOOLEAN :
         IF ok
         THEN /\ dishes' = Append(dishes, NewDish(nextDishId, defaultDishes[seed[p].i]))
              /\ nextDishId' = nextDishId + 1
              /\ seed' = [seed EXCEPT ![p] = SeedAdvance(seed[p])]
         ELSE /\ seed' = [seed EXCEPT ![p] = SeedAbort(seed[p])]
              /\ UNCHANGED <<dishes, nextDishId>>
    /\ UNCHANGED <<orders, nextOrderId, now, deleted, pristine, response>>

(***************************************************************************)
(* Orders, requests and responses.                                         *)
(***************************************************************************)
\* An order document as orderSchema stores it.
NewOrder(id, main, sides, dessert, t) ==
    [_id |-> id, mainDish |-> main, sideDishes |-> sides,
     dessert |-> dessert, createdAt |-> t]

OrderIds(os) == {os[k]._id : k \in 1..Len(os)}

\* Order.findById(id): position of the document in the collection, 0 if none.
FindOrderIndex(os, id) ==
    IF \E k \in 1..Len(os) : os[k]._id = id
    THEN CHOOSE k \in 1..Len(os) : os[k]._id = id
    ELSE 0

\* A stored reference as JSON shows it when it is not populated.
Bare(id) == IF id = NullId THEN NoDish ELSE [_id |-> id]

RECURSIVE BareAll(_)
BareAll(ids) ==
    IF ids = <<>> THEN <<>> ELSE <<Bare(Head(ids))>> \o BareAll(Tail(ids))

\* res.json(order) of a document that was never populated.
BareView(o) ==
    [_id |-> o._id, mainDish |-> Bare(o.mainDish),
     sideDishes |-> BareAll(o.sideDishes),
     dessert |-> Bare(o.dessert), createdAt |-> o.createdAt]

\* populate() of an array path: the documents found, in order; references
\* that match no document are dropped.
RECURSIVE PopulateAll(_, _)
PopulateAll(ds, ids) ==
    IF ids = <<>> THEN <<>>
    ELSE LET d == FindDishById(ds, Head(ids))
         IN  (IF d = NoDish THEN <<>> ELSE <<d>>) \o PopulateAll(ds, Tail(ids))

\* Mutant of Populate: the dessert path is left out of the populate call.
PopulateNoDessert(ds, o) ==
    [_id |-> o._id, mainDish |-> FindDishById(ds, o.mainDish),
     sideDishes |-> PopulateAll(ds, o.sideDishes),
     dessert |-> Bare(o.dessert), createdAt |-> o.createdAt]

\* .populate("mainDish sideDishes dessert"): a single reference that matches
\* no document becomes null.
Populate(ds, o) ==
    [_id |-> o._id, mainDish |-> FindDishById(ds, o.mainDish),
     sideDishes |-> PopulateAll(ds, o.sideDishes),
     dessert |-> FindDishById(ds, o.dessert), createdAt |-> o.createdAt]

RECURSIVE PopulateOrders(_, _)
PopulateOrders(ds, os) ==
    IF os = <<>> THEN <<>>
    ELSE <<Populate(ds, Head(os))>> \o PopulateOrders(ds, Tail(os))

Respond(op, status, message, body) ==
    [op |-> op, status |-> status, message |-> message, body |-> body]

\* error.message of a rejected storage call.
StorageError == "storage error"

(***************************************************************************)
(* POST /order.  The body names dishes: mainDish and dessert are "" when   *)
(* absent (or otherwise falsy), isArray tells whether sideDishes is an     *)
(* array.                                                                  *)
(***************************************************************************)
CreateRequest(main, isArray, sides, dessert) ==
    [mainDish |-> main, isArray |-> isArray, sideDishes |-> sides,
     dessert |-> dessert]

MainChoices == {"", "Rice", "Pizza"}
SideChoices == { <<>>, <<"Wadai">>, <<"Dhal curry", "Wadai">>,
                 <<"Wadai", "Pizza", "Cola">> }
DessertChoices == {"", "Jelly", "Pizza"}

CreateRequests ==
    {CreateRequest(m, TRUE, s, d) :
        m \in MainChoices, s \in SideChoices, d \in DessertChoices}
    \cup {CreateRequest(m, FALSE, <<>>, d) :
        m \in MainChoices, d \in DessertChoices}

\* The guard of the handler's first if.
InvalidShape(req) ==
    \/ req.mainDish = ""
    \/ ~req.isArray
    \/ Len(req.sideDishes) = 0

\* Mutant of ResolveSides: each identity is put in front of the list
\* (unshift for push).
RECURSIVE ResolveSidesUnshift(_, _, _, _)
ResolveSidesUnshift(ds, names, k, ids) ==
    IF k > Len(names) THEN [ok |-> TRUE, ids |-> ids, name |-> ""]
    ELSE LET sideDish == FindOneDish(ds, names[k])
         IN  IF sideDish = NoDish
             THEN [ok |-> FALSE, ids |-> ids, name |-> names[k]]
             ELSE ResolveSidesUnshift(ds, names, k + 1, <<sideDish._id>> \o ids)

\* The for loop over req.body.sideDishes from position k on, ids being the
\* identities pushed so far: it returns at the first name that resolves to
\* nothing.
RECURSIVE ResolveSides(_, _, _, _)
ResolveSides(ds, names, k, ids) ==
    IF k > Len(names) THEN [ok |-> TRUE, ids |-> ids, name |-> ""]
    ELSE LET sideDish == FindOneDish(ds, names[k])
         IN  IF sideDish = NoDish
             THEN [ok |-> FALSE, ids |-> ids, name |-> names[k]]
             ELSE ResolveSides(ds, names, k + 1, Append(ids, sideDish._id))

\* Mutant of ResolveOrder: an unresolved dessert is saved as no dessert.
ResolveOrderLenientDessert(ds, req) ==
    LET mainDish == FindOneDish(ds, req.mainDish)
        sides    == ResolveSides(ds, req.sideDishes, 1, <<>>)
        dessert  == FindOneDish(ds, req.dessert)
        none     == [mainDish |-> NullId, sideDishes |-> <<>>, dessert |-> NullId]
    IN  IF mainDish = NoDish
        THEN [status |-> 404, message |-> "Main dish not found", data |-> none]
        ELSE IF ~sides.ok
        THEN [status |-> 404,
              message |-> "Side dish " \o sides.name \o " not found",
              data |-> none]
        ELSE [status |-> 201, message |-> "",
              data |-> [mainDish |-> mainDish._id,
                        sideDishes |-> sides.ids,
                        dessert |-> dessert._id]]

\* Mutant of ResolveOrder: the dessert is resolved before the side dishes.
ResolveOrderDessertFirst(ds, req) ==
    LET mainDish == FindOneDish(ds, req.mainDish)
        sides    == ResolveSides(ds, req.sideDishes, 1, <<>>)
        dessert  == FindOneDish(ds, req.dessert)
        none     == [mainDish |-> NullId, sideDishes |-> <<>>, dessert |-> NullId]
    IN  IF mainDish = NoDish
        THEN [status |-> 404, message |-> "Main dish not found", data |-> none]
        ELSE IF req.dessert # "" /\ dessert = NoDish
        THEN [status |-> 404, message |-> "Dessert not found", data |-> none]
        ELSE IF ~sides.ok
        THEN [status |-> 404,
              message |-> "Side dish " \o sides.name \o " not found",
              data |-> none]
        ELSE [status |-> 201, message |-> "",
              data |-> [mainDish |-> mainDish._id,
                        sideDishes |-> sides.ids,
                        dessert |-> IF req.dessert # "" THEN dessert._id
                                    ELSE NullId]]

\* The handler's path through its validation, for a request of valid shape:
\* the status and message it answers with, and the orderData it would save.
ResolveOrder(ds, req) ==
    LET mainDish == FindOneDish(ds, req.mainDish)
        sides    == ResolveSides(ds, req.sideDishes, 1, <<>>)
        dessert  == FindOneDish(ds, req.dessert)
        none     == [mainDish |-> NullId, sideDishes |-> <<>>, dessert |-> NullId]
    IN  IF mainDish = NoDish
        THEN [status |-> 404, message |-> "Main dish not found", data |-> none]
        ELSE IF ~sides.ok
        THEN [status |-> 404,
              message |-> "Side dish " \o sides.name \o " not found",
              data |-> none]
        ELSE IF req.dessert # "" /\ dessert = NoDish
        THEN [status |-> 404, message |-> "Dessert not found", data |-> none]
        ELSE [status |-> 201, message |-> "",
              data |-> [mainDish |-> mainDish._id,
                        sideDishes |-> sides.ids,
                        dessert |-> IF req.dessert # "" THEN dessert._id
                                    ELSE NullId]]

\* The history of create requests: id is recorded as created from req, or
\* dropped once the order is updated or deleted.
Remember(h, id, req) ==
    [x \in DOMAIN h \cup {id} |-> IF x = id THEN req ELSE h[x]]

Forget(h, id) == [x \in DOMAIN h \ {id} |-> h[x]]

\* What the handler answers a newly saved order with: res.json(order).
CreatedBody(ds, o) == BareView(o)

CreateOrder(req) ==
    /\ nextOrderId <= MaxOrders
    /\ IF InvalidShape(req)
       THEN /\ response' = Respond("create", 400,
                  "You must order at least one main dish and one side dish.", <<>>)
            /\ UNCHANGED <<orders, nextOrderId, pristine>>
       ELSE \E ok \in BOOLEAN :
              LET r == ResolveOrder(dishes, req)
                  o == NewOrder(nextOrderId, r.data.mainDish, r.data.sideDishes,
                                r.data.dessert, now)
              IN  IF ~ok
                  THEN /\ response' = Respond("create", 400, StorageError, <<>>)
                       /\ UNCHANGED <<orders, nextOrderId, pristine>>
                  ELSE IF r.status # 201
                  THEN /\ response' = Respond("create", r.status, r.message, <<>>)
                       /\ UNCHANGED <<orders, nextOrderId, pristine>>
                  ELSE /\ orders' = Append(orders, o)
                       /\ nextOrderId' = nextOrderId + 1
                       /\ pristine' = Remember(pristine, o._id, req)
                       /\ response' = Respond("create", 201, "",
                                              <<CreatedBody(dishes, o)>>)
    /\ UNCHANGED <<dishes, seed, nextDishId, now, deleted>>

(***************************************************************************)
(* GET /orders, GET /order/:id.                                            *)
(***************************************************************************)
\* The identities a request can put in the place of :id.
IdParams == (1..MaxOrders) \cup {GhostId, MalformedId}

GetOrders ==
    /\ \E ok \in BOOLEAN :
         response' = IF ok
                     THEN Respond("list", 200, "", PopulateOrders(dishes, orders))
                     ELSE Respond("list", 500, StorageError, <<>>)
    /\ UNCHANGED <<dishes, orders, seed, nextDishId, nextOrderId, now, deleted,
                 pristine>>

\* Order.findById(id).populate(...): casting a malformed id rejects.
GetOrderResult(ds, os, id) ==
    LET k == FindOrderIndex(os, id)
    IN  IF id = MalformedId THEN Respond("get", 500, "Cast to ObjectId failed", <<>>)
        ELSE IF k = 0 THEN Respond("get", 404, "Order not found", <<>>)
        ELSE Respond("get", 200, "", <<Populate(ds, os[k])>>)

GetOrder(id) ==
    /\ \E ok \in BOOLEAN :
         response' = IF ok THEN GetOrderResult(dishes, orders, id)
                     ELSE Respond("get", 500, StorageError, <<>>)
    /\ UNCHANGED <<dishes, orders, seed, nextDishId, nextOrderId, now, deleted,
                 pristine>>

(***************************************************************************)
(* PUT /order/:id.  The body carries identities; a field absent from it is *)
(* UndefinedId (hasSides FALSE for the side list).                         *)
(***************************************************************************)
UpdateRequest(main, hasSides, sides, dessert) ==
    [mainDish |-> main, hasSides |-> hasSides, sideDishes |-> sides,
     dessert |-> dessert]

\* The bodies tried: a full replacement by existing dishes, one with a main
\* dish that does not exist, one with an empty side list, one with a dangling
\* side dish and no dessert field, an empty body, and one that is no ObjectId.
UpdateRequests ==
    { UpdateRequest(2, TRUE, <<5>>, 7),
      UpdateRequest(GhostId, TRUE, <<5>>, NullId),
      UpdateRequest(2, TRUE, <<>>, 7),
      UpdateRequest(2, TRUE, <<GhostId, 4>>, UndefinedId),
      UpdateRequest(UndefinedId, FALSE, <<>>, UndefinedId),
      UpdateRequest(MalformedId, TRUE, <<5>>, 7) }

\* Casting the update to the schema: a value that is no ObjectId rejects.
CastFails(upd) ==
    \/ upd.mainDish = MalformedId
    \/ upd.dessert = MalformedId
    \/ \E k \in 1..Len(upd.sideDishes) : upd.sideDishes[k] = MalformedId

\* The document after { mainDish, sideDishes, dessert } is set on it.  An
\* undefined field is either dropped from the update or written as null,
\* depending on the mongoose version (omitUndefined).
ApplyUpdate(o, upd, omitUndefined) ==
    [o EXCEPT
       !.mainDish = IF upd.mainDish # UndefinedId THEN upd.mainDish
                    ELSE IF omitUndefined THEN o.mainDish ELSE NullId,
       !.sideDishes = IF upd.hasSides THEN upd.sideDishes
                      ELSE IF omitUndefined THEN o.sideDishes ELSE <<>>,
       !.dessert = IF upd.dessert # UndefinedId THEN upd.dessert
                   ELSE IF omitUndefined THEN o.dessert ELSE NullId]

\* Mutant of UpdateOrder: the update is an upsert, so an identity that no
\* Order has gets a new document.
UpdateOrderUpsert(id, upd) ==
    /\ LET k == FindOrderIndex(orders, id)
       IN  IF id = MalformedId
           THEN /\ response' = Respond("update", 400, "Invalid order ID format", <<>>)
                /\ UNCHANGED <<orders, pristine>>
           ELSE \E ok \in BOOLEAN :
                  IF ~ok
                  THEN /\ response' = Respond("update", 400, StorageError, <<>>)
                       /\ UNCHANGED <<orders, pristine>>
                  ELSE IF CastFails(upd)
                  THEN /\ response' = Respond("update", 400,
                                              "Cast to ObjectId failed", <<>>)
                       /\ UNCHANGED <<orders, pristine>>
                  ELSE IF k = 0
                  THEN /\ orders' = Append(orders,
                              ApplyUpdate(NewOrder(id, NullId, <<>>, NullId, now),
                                          upd, TRUE))
                       /\ UNCHANGED pristine
                       /\ response' = Respond("update", 200, "",
                              <<Populate(dishes, orders'[Len(orders')])>>)
                  ELSE \E omitUndefined \in BOOLEAN :
                         /\ orders' = [orders EXCEPT
                               ![k] = ApplyUpdate(orders[k], upd, omitUndefined)]
                         /\ pristine' = Forget(pristine, id)
                         /\ response' = Respond("update", 200, "",
                                                <<Populate(dishes, orders'[k])>>)
    /\ UNCHANGED <<dishes, seed, nextDishId, nextOrderId, now, deleted>>

UpdateOrder(id, upd) ==
    /\ LET k == FindOrderIndex(orders, id)
       IN  IF id = MalformedId
           THEN /\ response' = Respond("update", 400, "Invalid order ID format", <<>>)
                /\ UNCHANGED <<orders, pristine>>
           ELSE \E ok \in BOOLEAN :
                  IF ~ok
                  THEN /\ response' = Respond("update", 400, StorageError, <<>>)
                       /\ UNCHANGED <<orders, pristine>>
                  ELSE IF CastFails(upd)
                  THEN /\ response' = Respond("update", 400,
                                              "Cast to ObjectId failed", <<>>)
                       /\ UNCHANGED <<orders, pristine>>
                  ELSE IF k = 0
                  THEN /\ response' = Respond("update", 404, "Order not found", <<>>)
                       /\ UNCHANGED <<orders, pristine>>
                  ELSE \E omitUndefined \in BOOLEAN :
                         /\ orders' = [orders EXCEPT
                               ![k] = ApplyUpdate(orders[k], upd, omitUndefined)]
                         /\ pristine' = Forget(pristine, id)
                         /\ response' = Respond("update", 200, "",
                                                <<Populate(dishes, orders'[k])>>)
    /\ UNCHANGED <<dishes, seed, nextDishId, nextOrderId, now, deleted>>

(***************************************************************************)
(* DELETE /order/:id.                                                      *)
(***************************************************************************)
\* Mutant of RemoveOrder: the document is found but not removed.
RemoveOrderKeep(os, id) == os

\* The collection without the document of that identity.
RemoveOrder(os, id) == SelectSeq(os, LAMBDA o : o._id # id)

DeleteOrder(id) ==
    /\ LET k == FindOrderIndex(orders, id)
       IN  \E ok \in BOOLEAN :
             IF ~ok
             THEN /\ response' = Respond("delete", 500, StorageError, <<>>)
                  /\ UNCHANGED <<orders, deleted, pristine>>
             ELSE IF id = MalformedId
             THEN /\ response' = Respond("delete", 500, "Cast to ObjectId failed", <<>>)
                  /\ UNCHANGED <<orders, deleted, pristine>>
             ELSE IF k = 0
             THEN /\ response' = Respond("delete", 404, "Order not found", <<>>)
                  /\ UNCHANGED <<orders, deleted, pristine>>
             ELSE /\ orders' = RemoveOrder(orders, id)
                  /\ deleted' = deleted \cup {id}
                  /\ pristine' = Forget(pristine, id)
                  /\ response' = Respond("delete", 200,
                                         "Order deleted successfully", <<>>)
    /\ UNCHANGED <<dishes, seed, nextDishId, nextOrderId, now>>

(***************************************************************************)
(* Reports.  Each is recomputed from the collections on every call.        *)
(***************************************************************************)
\* today.setHours(0, 0, 0, 0): the first instant of the day t falls in.
StartOfDay(t) == t - (t % DayLength)

\* tomorrow.setDate(tomorrow.getDate() + 1)
NextDay(today) == today + DayLength

\* Order.find({ createdAt: { $gte: today, $lt: tomorrow } }).populate(...)
TodaysOrders(ds, os, t) ==
    PopulateOrders(ds, SelectSeq(os, LAMBDA o :
        /\ StartOfDay(t) <= o.createdAt
        /\ o.createdAt < NextDay(StartOfDay(t))))

RECURSIVE SumPrices(_)
SumPrices(ds) == IF ds = <<>> THEN 0 ELSE Head(ds).price + SumPrices(Tail(ds))

\* The reduce callback: what one populated order adds to the total.
OrderTotal(v) ==
    v.mainDish.price + SumPrices(v.sideDishes)
    + (IF v.dessert # NoDish THEN v.dessert.price ELSE 0)

RECURSIVE SumTotals(_)
SumTotals(vs) == IF vs = <<>> THEN 0 ELSE OrderTotal(Head(vs)) + SumTotals(Tail(vs))

\* What reading a property of null or undefined throws.
TypeError == "Cannot read properties of null"

\* The daily-sales handler after its find: order.mainDish.price throws when
\* the populated main dish is null.
DailySalesResult(ds, os, t) ==
    LET vs == TodaysOrders(ds, os, t)
    IN  IF \E k \in 1..Len(vs) : vs[k].mainDish = NoDish
        THEN Respond("daily-sales", 500, TypeError, <<>>)
        ELSE Respond("daily-sales", 200, "", <<[dailySales |-> SumTotals(vs)]>>)

\* Mutant of DailySalesReport: the orders of the day are removed once summed
\* (the query run as a findAndDelete).
DailySalesReportPurging ==
    /\ response' = DailySalesResult(dishes, orders, now)
    /\ orders' = SelectSeq(orders, LAMBDA o :
           ~(/\ StartOfDay(now) <= o.createdAt
             /\ o.createdAt < NextDay(StartOfDay(now))))
    /\ UNCHANGED <<dishes, seed, nextDishId, nextOrderId, now, deleted, pristine>>

DailySalesReport ==
    /\ \E ok \in BOOLEAN :
         response' = IF ok THEN DailySalesResult(dishes, orders, now)
                     ELSE Respond("daily-sales", 500, StorageError, <<>>)
    /\ UNCHANGED <<dishes, orders, seed, nextDishId, nextOrderId, now, deleted,
                   pristine>>

\* { $group: { _id: "$mainDish", count: { $sum: 1 } } }
MainGroups(os) == {os[k].mainDish : k \in 1..Len(os)}

MainCount(os, id) == Cardinality({k \in 1..Len(os) : os[k].mainDish = id})

\* { $unwind: "$sideDishes" }: one document per (order, position).
Unwound(os) ==
    UNION {{<<k, j>> : j \in 1..Len(os[k].sideDishes)} : k \in 1..Len(os)}

\* { $group: { _id: "$sideDishes", count: { $sum: 1 } } }
SideGroups(os) == {os[u[1]].sideDishes[u[2]] : u \in Unwound(os)}

SideCount(os, id) ==
    Cardinality({u \in Unwound(os) : os[u[1]].sideDishes[u[2]] = id})

\* { $group: { _id: { mainDish, sideDish }, count } }
PairGroups(os) ==
    {<<os[u[1]].mainDish, os[u[1]].sideDishes[u[2]]>> : u \in Unwound(os)}

PairCount(os, g) ==
    Cardinality({u \in Unwound(os) :
        <<os[u[1]].mainDish, os[u[1]].sideDishes[u[2]]>> = g})

\* { $sort: { count: -1 } }, { $limit: 1 }: the groups that can come first.
\* The sort has no second key and $group emits in no specified order, so
\* any group of the largest count can be the first.
MainWinners(os) ==
    {g \in MainGroups(os) :
        \A h \in MainGroups(os) : MainCount(os, h) <= MainCount(os, g)}

SideWinners(os) ==
    {g \in SideGroups(os) :
        \A h \in SideGroups(os) : SideCount(os, h) <= SideCount(os, g)}

\* The two $lookup / $unwind stages drop a group whose main or side dish is
\* in no Dish document; $limit then takes the first group left.
JoinedPairs(ds, os) ==
    {g \in PairGroups(os) : g[1] \in DishIds(ds) /\ g[2] \in DishIds(ds)}

PairWinners(ds, os) ==
    {g \in JoinedPairs(ds, os) :
        \A h \in JoinedPairs(ds, os) : PairCount(os, h) <= PairCount(os, g)}

\* const dish = await Dish.findById(mostFamous[0]._id);
\* res.json({ dish: dish.name, orders: mostFamous[0].count })
FamousResult(op, ds, id, count) ==
    IF FindDishById(ds, id) = NoDish
    THEN Respond(op, 500, TypeError, <<>>)
    ELSE Respond(op, 200, "",
                 <<[dish |-> FindDishById(ds, id).name, orders |-> count]>>)

\* The answers the famous-main-dish handler can give: mostFamous[0] is
\* undefined when there is no group.
FamousMainResults(ds, os) ==
    IF MainGroups(os) = {} THEN {Respond("famous-main", 500, TypeError, <<>>)}
    ELSE {FamousResult("famous-main", ds, g, MainCount(os, g)) : g \in MainWinners(os)}

FamousSideResults(ds, os) ==
    IF SideGroups(os) = {} THEN {Respond("famous-side", 500, TypeError, <<>>)}
    ELSE {FamousResult("famous-side", ds, g, SideCount(os, g)) : g \in SideWinners(os)}

NoPairings == "No pairings found"

MostCommonPairResults(ds, os) ==
    IF PairWinners(ds, os) = {} THEN {Respond("common-pair", 200, NoPairings, <<>>)}
    ELSE {Respond("common-pair", 200, "",
                  <<[mainDish |-> FindDishById(ds, g[1]).name,
                     sideDish |-> FindDishById(ds, g[2]).name,
                     orders |-> PairCount(os, g)]>>) : g \in PairWinners(ds, os)}

FamousMainDishReport ==
    /\ \E ok \in BOOLEAN :
         IF ok THEN response' \in FamousMainResults(dishes, orders)
         ELSE response' = Respond("famous-main", 500, StorageError, <<>>)
    /\ UNCHANGED <<dishes, orders, seed, nextDishId, nextOrderId, now, deleted,
                   pristine>>

FamousSideDishReport ==
    /\ \E ok \in BOOLEAN :
         IF ok THEN response' \in FamousSideResults(dishes, orders)
         ELSE response' = Respond("famous-side", 500, StorageError, <<>>)
    /\ UNCHANGED <<dishes, orders, seed, nextDishId, nextOrderId, now, deleted,
                   pristine>>

MostCommonPairReport ==
    /\ \E ok \in BOOLEAN :
         IF ok THEN response' \in MostCommonPairResults(dishes, orders)
         ELSE response' = Respond("common-pair", 500, StorageError, <<>>)
    /\ UNCHANGED <<dishes, orders, seed, nextDishId, nextOrderId, now, deleted,
                   pristine>>

\* Time passes.
Tick ==
    /\ now < MaxTime
    /\ now' = now + 1
    /\ UNCHANGED <<dishes, orders, seed, nextDishId, nextOrderId, deleted, pristine,
                 response>>

NoResponse == [op |-> "none", status |-> 0, message |-> "", body |-> <<>>]

\* Several instances start against one empty database; no request is served.
InitSeed ==
    /\ dishes = <<>>
    /\ orders = <<>>
    /\ seed = [p \in Instances |-> SeedIdle(p)]
    /\ nextDishId = 1
    /\ nextOrderId = 1
    /\ now = 0
    /\ deleted = {}
    /\ pristine = <<>>
    /\ response = NoResponse

NextSeed ==
    \/ \E p \in DOMAIN seed : SeedStart(p)
    \/ \E p \in DOMAIN seed : SeedFind(p)
    \/ \E p \in DOMAIN seed : SeedSave(p)

SpecSeed == InitSeed /\ [][NextSeed]_vars

\* The catalog a seeding run that ended normally leaves in an empty database.
SeededCatalog == [k \in 1..Len(defaultDishes) |-> NewDish(k, defaultDishes[k])]

\* One instance serves requests; its seeding run has ended normally
\* ("Menu initialized").  No handler reads the clock except to stamp a new
\* order, so the requests are taken at one instant.
Init ==
    /\ dishes = SeededCatalog
    /\ orders = <<>>
    /\ seed = [p \in {1} |-> [pc |-> "done", i |-> Len(defaultDishes), seq |-> FALSE]]
    /\ nextDishId = Len(defaultDishes) + 1
    /\ nextOrderId = 1
    /\ now = 0
    /\ deleted = {}
    /\ pristine = <<>>
    /\ response = NoResponse

Next ==
    \/ \E req \in CreateRequests : CreateOrder(req)
    \/ GetOrders
    \/ \E id \in IdParams : GetOrder(id)
    \/ \E id \in IdParams, upd \in UpdateRequests : UpdateOrder(id, upd)
    \/ \E id \in IdParams : DeleteOrder(id)

Spec == Init /\ [][Next]_vars

Reports ==
    \/ DailySalesReport
    \/ FamousMainDishReport
    \/ FamousSideDishReport
    \/ MostCommonPairReport

\* The same instance, its orders written and reported on at one instant.
NextReports ==
    \/ \E req \in CreateRequests : CreateOrder(req)
    \/ \E id \in IdParams, upd \in UpdateRequests : UpdateOrder(id, upd)
    \/ \E id \in IdParams : DeleteOrder(id)
    \/ Reports

SpecReports == Init /\ [][NextReports]_vars

\* The same instance with every handler, while time passes.
NextClock ==
    \/ Next
    \/ Reports
    \/ Tick

SpecClock == Init /\ [][NextClock]_vars

\* One instance starts against an empty database and serves requests while
\* its seeding run is under way and time passes.
InitAll ==
    /\ dishes = <<>>
    /\ orders = <<>>
    /\ seed = [p \in {1} |-> SeedIdle(p)]
    /\ nextDishId = 1
    /\ nextOrderId = 1
    /\ now = 0
    /\ deleted = {}
    /\ pristine = <<>>
    /\ response = NoResponse

NextAll ==
    \/ NextSeed
    \/ Next
    \/ Tick

SpecAll == InitAll /\ [][NextAll]_vars

(***************************************************************************)
(* Properties.                                                             *)
(***************************************************************************)
DishNames(ds) == {ds[k].name : k \in 1..Len(ds)}

\* The identity of the dish of that name (names are unique where this is used).
IdOfName(ds, name) == ds[CHOOSE k \in 1..Len(ds) : ds[k].name = name]._id

\* The names a create request refers to.
NamesOf(req) ==
    {req.mainDish} \cup {req.sideDishes[k] : k \in 1..Len(req.sideDishes)}
    \cup (IF req.dessert = "" THEN {} ELSE {req.dessert})

\* A request the create operation has to refuse.
MustFail(ds, req) ==
    \/ req.mainDish = ""
    \/ ~req.isArray
    \/ req.sideDishes = <<>>
    \/ \E n \in NamesOf(req) : n \notin DishNames(ds)

\* C1: a create request that fails (main dish missing, side list missing or
\* empty, or a main, side or dessert name that resolves to no Dish), on
\* whichever path, leaves the Order collection as it was.
AtomicCreate ==
    [][response'.op = "create" => \A req \in CreateRequests :
         (CreateOrder(req) /\ (MustFail(dishes, req) \/ response'.status # 201))
            => orders' = orders]_vars

\* C1 witness: a create was refused for an unresolved name while the
\* collection held an order.
AtomicCreateWitness ==
    /\ response.op = "create"
    /\ response.status = 404
    /\ Len(orders) >= 1

\* C2: every persisted Order's main-dish reference, every element of its
\* side-dish list, and its dessert reference when present, is the identity
\* of a Dish of the catalog, in every state seeding, create, update and
\* delete can reach.
ReferentialIntegrity ==
    \A k \in 1..Len(orders) :
        /\ orders[k].mainDish \in DishIds(dishes)
        /\ \A j \in 1..Len(orders[k].sideDishes) :
               orders[k].sideDishes[j] \in DishIds(dishes)
        /\ orders[k].dessert # NullId => orders[k].dessert \in DishIds(dishes)

\* C3: every persisted Order has at least one side dish, in every state
\* create, update and delete can reach.
SideListNonEmpty ==
    \A k \in 1..Len(orders) : Len(orders[k].sideDishes) >= 1

\* C4: while runs of the seeding routine interleave at their lookup and
\* insert steps, no two Dishes of the catalog have the same name.
DishNamesUnique ==
    \A j, k \in 1..Len(dishes) : dishes[j].name = dishes[k].name => j = k

\* C5: a seeding run that began after another run over the same list had
\* ended normally changes nothing in the Dish collection, at any of its steps.
IdempotentSeeding ==
    [][\A p \in DOMAIN seed :
         (seed[p].seq /\ seed'[p] # seed[p]) => dishes' = dishes]_vars

\* C5 witness: a run that began after another had ended normally has itself
\* run to its end.
IdempotentSeedingWitness ==
    \E p \in DOMAIN seed : seed[p].seq /\ seed[p].pc = "done"

\* C6: when a seeding run has ended, every entry of the list other than the
\* one whose lookup or insert failed is in the catalog.
SeedingIsolatesFailures ==
    \A p \in DOMAIN seed :
        seed[p].pc \in {"done", "failed"} =>
            \A k \in 1..Len(defaultDishes) :
                (seed[p].pc = "failed" /\ k = seed[p].i)
                \/ defaultDishes[k].name \in DishNames(dishes)

\* C7: an identity whose delete was confirmed is NotFound for get-by-id and
\* in no record of get-all, in every later state.
DeleteIsTerminal ==
    \A id \in deleted :
        /\ GetOrderResult(dishes, orders, id).status = 404
        /\ \A k \in 1..Len(PopulateOrders(dishes, orders)) :
               PopulateOrders(dishes, orders)[k]._id # id

\* C7 witness: an order was deleted and another one created after it.
DeleteIsTerminalWitness ==
    \E id \in deleted : \E k \in 1..Len(orders) : orders[k]._id > id

\* Positions of the side names of a request that resolve to no Dish.
UnresolvedSides(ds, req) ==
    {k \in 1..Len(req.sideDishes) : req.sideDishes[k] \notin DishNames(ds)}

FirstOf(S) == CHOOSE k \in S : \A j \in S : k <= j

\* C8: unless a storage call itself is rejected, create answers with the
\* first failure of the fixed order: InvalidRequest for a missing main dish
\* or a missing or empty side list; else NotFound(main dish); else
\* NotFound(side dish n) for the first unresolved n in input order; else
\* NotFound(dessert) for a supplied, unresolved dessert; else success.
CreateFailsFast ==
    [][response'.op = "create" => \A req \in CreateRequests :
         (CreateOrder(req) /\ response'.message # StorageError) =>
            IF req.mainDish = "" \/ ~req.isArray \/ req.sideDishes = <<>>
            THEN /\ response'.status = 400
                 /\ response'.message =
                      "You must order at least one main dish and one side dish."
            ELSE IF req.mainDish \notin DishNames(dishes)
            THEN /\ response'.status = 404
                 /\ response'.message = "Main dish not found"
            ELSE IF UnresolvedSides(dishes, req) # {}
            THEN /\ response'.status = 404
                 /\ response'.message = "Side dish "
                      \o req.sideDishes[FirstOf(UnresolvedSides(dishes, req))]
                      \o " not found"
            ELSE IF req.dessert # "" /\ req.dessert \notin DishNames(dishes)
            THEN /\ response'.status = 404
                 /\ response'.message = "Dessert not found"
            ELSE response'.status = 201]_vars

\* C8 witness: a request whose second side name is its first unresolved one
\* was answered by naming that side dish.
CreateFailsFastWitness ==
    /\ response.op = "create"
    /\ response.status = 404
    /\ response.message = "Side dish Pizza not found"

\* C9: a successful create appends exactly one Order and changes no other:
\* its identity was never used, its main reference is the named main Dish,
\* its side list the named side Dishes in input order, its dessert the named
\* dessert or null when none was supplied.
CreateAddsOneOrder ==
    [][response'.op = "create" => \A req \in CreateRequests :
         (CreateOrder(req) /\ response'.status = 201) =>
            /\ Len(orders') = Len(orders) + 1
            /\ SubSeq(orders', 1, Len(orders)) = orders
            /\ LET o == orders'[Len(orders')]
               IN  /\ o._id \notin OrderIds(orders) \cup deleted
                   /\ o.mainDish = IdOfName(dishes, req.mainDish)
                   /\ Len(o.sideDishes) = Len(req.sideDishes)
                   /\ \A k \in 1..Len(req.sideDishes) :
                          o.sideDishes[k] = IdOfName(dishes, req.sideDishes[k])
                   /\ o.dessert = IF req.dessert = "" THEN NullId
                                  ELSE IdOfName(dishes, req.dessert)]_vars

\* C9 witness: a create with two side dishes and a dessert succeeded while
\* the collection already held an order.
CreateAddsOneOrderWitness ==
    /\ response.op = "create"
    /\ response.status = 201
    /\ Len(orders) = 2
    /\ Len(orders[2].sideDishes) = 2
    /\ orders[2].dessert # NullId

\* C10: the value a successful create returns is the persisted Order with its
\* main, side and dessert references expanded into full Dish data.
CreateReturnsExpanded ==
    (response.op = "create" /\ response.status = 201) =>
        response.body = <<Populate(dishes, orders[Len(orders)])>>

\* The Dish of that name (names are unique where this is used).
DishNamed(ds, name) == ds[CHOOSE k \in 1..Len(ds) : ds[k].name = name]

\* C11: get-by-id on an Order that was created and not since updated or
\* deleted returns main, side and dessert expanded to the Dishes its create
\* request named: sides in the same order, no dessert when none was named.
ExpansionRoundTrip ==
    \A id \in DOMAIN pristine :
        LET req == pristine[id]
            res == GetOrderResult(dishes, orders, id)
        IN  /\ res.status = 200
            /\ Len(res.body) = 1
            /\ res.body[1]._id = id
            /\ res.body[1].mainDish = DishNamed(dishes, req.mainDish)
            /\ Len(res.body[1].sideDishes) = Len(req.sideDishes)
            /\ \A k \in 1..Len(req.sideDishes) :
                   res.body[1].sideDishes[k] = DishNamed(dishes, req.sideDishes[k])
            /\ res.body[1].dessert = IF req.dessert = "" THEN NoDish
                                     ELSE DishNamed(dishes, req.dessert)

\* C11 witness: an order created with two sides and a dessert was read back
\* by identity after another order had been updated.
ExpansionRoundTripWitness ==
    /\ response.op = "get"
    /\ response.status = 200
    /\ response.body[1]._id \in DOMAIN pristine
    /\ Len(pristine[response.body[1]._id].sideDishes) = 2
    /\ pristine[response.body[1]._id].dessert # ""
    /\ \E k \in 1..Len(orders) : orders[k]._id \notin DOMAIN pristine

\* C12: get-by-id and delete answer NotFound for every identity that no
\* Order has, well-formed or not, and leave the Order collection as it was;
\* only a rejected storage call is an internal error.
MissingIdIsNotFound ==
    [][\A id \in IdParams :
         (/\ id \notin OrderIds(orders)
          /\ GetOrder(id) \/ DeleteOrder(id)
          /\ response'.message # StorageError)
            => (response'.status = 404 /\ orders' = orders)]_vars

\* An update body with a reference that is no ObjectId.
MalformedBody(upd) ==
    MalformedId \in {upd.mainDish, upd.dessert}
                    \cup {upd.sideDishes[k] : k \in 1..Len(upd.sideDishes)}

\* C13 as stated: update answers InvalidRequest for a malformed identity and
\* NotFound for a well-formed one that no Order has, whatever the body; the
\* Order collection is unchanged and no Order is created.
UpdateIdErrors ==
    [][\A id \in IdParams, upd \in UpdateRequests :
         (/\ id \notin OrderIds(orders)
          /\ UpdateOrder(id, upd)
          /\ response'.message # StorageError)
            => /\ response'.status = IF id = MalformedId THEN 400 ELSE 404
               /\ orders' = orders
               /\ nextOrderId' = nextOrderId]_vars

\* C13 amended: update answers InvalidRequest for a malformed identity, and
\* for a well-formed identity that no Order has it answers InvalidRequest
\* when a reference of the body is malformed and NotFound otherwise; the
\* Order collection is unchanged and no Order is created.
UpdateIdErrorsAmended ==
    [][response'.op = "update" => \A id \in IdParams, upd \in UpdateRequests :
         (/\ id \notin OrderIds(orders)
          /\ UpdateOrder(id, upd)
          /\ response'.message # StorageError)
            => /\ response'.status =
                    IF id = MalformedId \/ MalformedBody(upd) THEN 400 ELSE 404
               /\ id = MalformedId =>
                    response'.message = "Invalid order ID format"
               /\ orders' = orders
               /\ nextOrderId' = nextOrderId]_vars

\* C13 witness: an update of an identity no Order has was answered NotFound
\* while the collection held an order.
UpdateIdErrorsWitness ==
    /\ response.op = "update"
    /\ response.status = 404
    /\ Len(orders) >= 1

\* The price a reference stands for.
PriceOf(ds, id) == IF id \in DishIds(ds) THEN FindDishById(ds, id).price ELSE 0

RECURSIVE SumOfPrices(_, _)
SumOfPrices(ds, ids) ==
    IF ids = <<>> THEN 0
    ELSE PriceOf(ds, Head(ids)) + SumOfPrices(ds, Tail(ids))

\* The orders stamped within the day of t.
OrdersOfDay(os, t) ==
    {k \in 1..Len(os) :
        \E d \in 0..MaxTime :
            /\ d * DayLength <= t /\ t < (d + 1) * DayLength
            /\ d * DayLength <= os[k].createdAt
            /\ os[k].createdAt < (d + 1) * DayLength}

RECURSIVE SalesOf(_, _, _)
SalesOf(ds, os, S) ==
    IF S = {} THEN 0
    ELSE LET k == CHOOSE x \in S : TRUE
         IN  PriceOf(ds, os[k].mainDish) + SumOfPrices(ds, os[k].sideDishes)
             + PriceOf(ds, os[k].dessert) + SalesOf(ds, os, S \ {k})

\* C14: in every reachable state the daily-sales report returns the sum,
\* over the Orders stamped from the start of today up to but not including
\* the start of tomorrow, of the main, side and dessert prices; 0 when no
\* order qualifies.
DailySalesIsSum ==
    DailySalesResult(dishes, orders, now) =
        Respond("daily-sales", 200, "",
                <<[dailySales |-> SalesOf(dishes, orders, OrdersOfDay(orders, now))]>>)

\* Every reference of every order is a Dish (the main dish is never null).
AllResolve ==
    \A k \in 1..Len(orders) :
        /\ orders[k].mainDish \in DishIds(dishes)
        /\ \A j \in 1..Len(orders[k].sideDishes) :
               orders[k].sideDishes[j] \in DishIds(dishes)
        /\ orders[k].dessert \in DishIds(dishes) \cup {NullId}

\* The largest count among the (main, side) pairs of the orders.
IsTopPair(os, g) ==
    /\ g \in PairGroups(os)
    /\ \A h \in PairGroups(os) : PairCount(os, h) <= PairCount(os, g)

\* C15: in every reachable state the pairing report names a (main, side)
\* pair whose count over all pairs of all Orders is the largest, with that
\* count; with no Order it answers "No pairings found".
PairingIsMaximum ==
    \A r \in MostCommonPairResults(dishes, orders) :
        IF orders = <<>> THEN r.status = 200 /\ r.message = NoPairings
        ELSE /\ r.status = 200
             /\ r.message # NoPairings
             /\ \E g \in PairGroups(orders) :
                    /\ IsTopPair(orders, g)
                    /\ g[1] \in DishIds(dishes) /\ g[2] \in DishIds(dishes)
                    /\ r.body = <<[mainDish |-> FindDishById(dishes, g[1]).name,
                                   sideDish |-> FindDishById(dishes, g[2]).name,
                                   orders |-> PairCount(orders, g)]>>

\* C16: in every reachable state with an Order, the famous-main-dish report
\* names a Dish that is the main dish of the largest number of Orders, with
\* that number; with no Order it signals an internal error.
FamousMainIsMaximum ==
    \A r \in FamousMainResults(dishes, orders) :
        IF orders = <<>> THEN r.status = 500
        ELSE /\ r.status = 200
             /\ \E id \in DishIds(dishes) :
                    /\ \A k \in 1..Len(orders) :
                           MainCount(orders, orders[k].mainDish)
                               <= MainCount(orders, id)
                    /\ r.body = <<[dish |-> FindDishById(dishes, id).name,
                                   orders |-> MainCount(orders, id)]>>

\* The operations the four report handlers answer as.
ReportOps == {"daily-sales", "famous-main", "famous-side", "common-pair"}

\* C17: each of the four reports, whether it succeeds or fails, leaves the
\* Order collection and the Dish collection as they were.
\* (A step that answers as a report is a step of that report's handler.)
NoReportMutates ==
    [][response'.op \in ReportOps => (orders' = orders /\ dishes' = dishes)]_vars

\* C17 witness: a report failed on a collection that holds orders.
NoReportMutatesWitness ==
    /\ response.op \in ReportOps
    /\ response.status = 500
    /\ response.message = TypeError
    /\ Len(orders) = 2

\* On collections whose references all resolve and whose side lists are not
\* empty, the three reports above answer as stated.
ReportsOnResolvedOrders ==
    (AllResolve /\ \A k \in 1..Len(orders) : orders[k].sideDishes # <<>>)
        => (DailySalesIsSum /\ PairingIsMaximum /\ FamousMainIsMaximum)

\* The three references a request body supplies: no main dish, no side dish
\* or no dessert where it names none.
ReplacementSet(upd) ==
    [mainDish |-> IF upd.mainDish = UndefinedId THEN NullId ELSE upd.mainDish,
     sideDishes |-> IF upd.hasSides THEN upd.sideDishes ELSE <<>>,
     dessert |-> IF upd.dessert = UndefinedId THEN NullId ELSE upd.dessert]

\* The three references of an order.
References(o) ==
    [mainDish |-> o.mainDish, sideDishes |-> o.sideDishes, dessert |-> o.dessert]

\* Every order but the k-th is as it was.
OthersUnchanged(k) ==
    /\ Len(orders') = Len(orders)
    /\ \A j \in 1..Len(orders) : j # k => orders'[j] = orders[j]

\* C18: after a successful update the order's main dish, side list and dessert
\* are exactly the values of the request (no dessert when it names none, the
\* old side list gone), its identity and creation time are as before, and
\* every other order is unchanged.
UpdateReplacesAll ==
    [][(response'.op = "update" /\ response'.status = 200) =>
         \A id \in IdParams, upd \in UpdateRequests :
            UpdateOrder(id, upd) =>
               LET k == FindOrderIndex(orders, id)
               IN  /\ k # 0
                   /\ upd.mainDish # UndefinedId =>
                          orders'[k].mainDish = upd.mainDish
                   /\ upd.hasSides => orders'[k].sideDishes = upd.sideDishes
                   /\ orders'[k].dessert = ReplacementSet(upd).dessert
                   /\ orders'[k]._id = orders[k]._id
                   /\ orders'[k].createdAt = orders[k].createdAt
                   /\ OthersUnchanged(k)]_vars

\* C19: when two updates of the same order have both completed, one right
\* after the other, the order's three references are the complete replacement
\* set of one update (the later writer's, or that of another request that
\* could have been the earlier one), never fields of both, and no other
\* order is touched.
LastWriterWins ==
    [][(/\ response.op = "update" /\ response.status = 200
        /\ response'.op = "update" /\ response'.status = 200) =>
         \A id \in IdParams, upd \in UpdateRequests :
            (response.body[1]._id = id /\ UpdateOrder(id, upd)) =>
               LET k == FindOrderIndex(orders, id)
               IN  /\ \E u \in UpdateRequests :
                          References(orders'[k]) = ReplacementSet(u)
                   /\ OthersUnchanged(k)]_vars

\* C20: the three "most popular" reports have one possible answer each in
\* every reachable state, so two evaluations on the same collection return
\* the same winner even when groups tie for the largest count.
DeterministicTieBreak ==
    /\ \A r1, r2 \in FamousMainResults(dishes, orders) : r1 = r2
    /\ \A r1, r2 \in FamousSideResults(dishes, orders) : r1 = r2
    /\ \A r1, r2 \in MostCommonPairResults(dishes, orders) : r1 = r2

====
